---- MODULE Spec2Model ----
(***************************************************************************)
(* droid2api: the proxy pool router (src/proxy-manager.js) and the rule    *)
(* compiler of the request/response obfuscator (src/req-obfuscator.js).    *)
(*                                                                         *)
(* JavaScript strings are modelled as sequences of tokens, '' being <<>>.  *)
(* A JavaScript function without await runs to completion, so each call of *)
(* a synchronous function is one action.                                   *)
(***************************************************************************)
EXTENDS Integers, Sequences, FiniteSets, TLC

VARIABLES
  config,                \* what getProxyConfigs() returns now (config.js)
  proxyIndex,            \* src/proxy-manager.js:5
  lastSnapshot,          \* src/proxy-manager.js:6
  last,                  \* observation of the most recent getNextProxyAgent call
  seenItems,             \* ghost: the last non-empty pool a call fetched
  emptySeen,             \* ghost: the most recent call found no pool
  calls,                 \* number of calls made (counted in SpecFair only)
  ruleFile,              \* req-replace/req-replace.json as it is on disk
  requestReplacements,   \* src/req-obfuscator.js:9
  responseReplacements,  \* src/req-obfuscator.js:10
  fresh,                 \* ghost: no write to the file since the last load
  input,                 \* the value a caller holds, to be given to a transform
  applied,               \* observation of the most recent call of a transform
  stream,                \* a streamed response going through transformStream
  userAgent,             \* getConfig().user_agent (config.js)
  currentVersion,        \* src/user-agent-updater.js:11
  isUpdating,            \* src/user-agent-updater.js:12
  fetches,               \* the requests of fetchLatestVersion not yet settled
  timers,                \* the retry timers set (line 89) and not yet fired
  updater,               \* the interval set or not, and what the updater has done
  error401Records,       \* src/unnamed/part_000:195
  failedKeysSet,         \* src/unnamed/part_000:198
  now,                   \* what Date.now() returns, in hours
  tracker                \* what the error tracker has done

routerVars == <<config, proxyIndex, lastSnapshot, last, seenItems, emptySeen, calls>>
rulesVars == <<ruleFile, requestReplacements, responseReplacements, fresh>>
readerVars == <<input, applied, stream>>
updaterVars == <<userAgent, currentVersion, isUpdating, fetches, timers, updater>>
trackerVars == <<error401Records, failedKeysSet, now, tracker>>
serviceVars == <<updaterVars, trackerVars>>
vars == <<routerVars, rulesVars, readerVars, serviceVars>>

(***************************************************************************)
(* Bounds                                                                  *)
(***************************************************************************)
MaxPool == 2        \* longest pool of the reconfigurable router (Spec)
MaxFairPool == 3    \* longest pool of the unchanging router (SpecFair)
MaxCalls == 4       \* calls counted in SpecFair
MaxRules == 2       \* longest rules array of req-replace.json (SpecRules)
MaxText == 3        \* longest string given to a transform (SpecApply)
MaxChunks == 2      \* most chunks of a streamed response (SpecStream)
MaxChecks == 2      \* hourly checks that fire (SpecUpdater, SpecUpdaterFair)
MaxRecords == 2     \* 401 errors recorded (SpecTracker)
MaxTicks == 2       \* advances of the clock (SpecTracker)

(***************************************************************************)
(* Values                                                                  *)
(***************************************************************************)
Str(t) == [type |-> "string", text |-> t]
Undefined == [type |-> "undefined", text |-> <<>>]

Obj(name, url) == [kind |-> "object", name |-> name, url |-> url]

EA == Obj(Str(<<"a">>), Str(<<"http://", "a">>))
EB == Obj(Undefined, Str(<<"http://", "b">>))
EC == Obj(Undefined, Str(<<"http://", "c">>))
ENoUrl == Obj(Str(<<"n">>), Undefined)               \* { "name": "n" }
EBlank == Obj(Undefined, Str(<<" ", " ">>))          \* { "url": "  " }
EBad == Obj(Undefined, Str(<<"b", ":", ":">>))       \* url that is no URL
ENull == [kind |-> "null", name |-> Undefined, url |-> Undefined]
\* what reading past the end of an array yields
EUndefined == [kind |-> "undefined", name |-> Undefined, url |-> Undefined]

Entries == {EA, EB, EC, ENoUrl, EBlank, EBad, ENull}
\* the entries the reconfigurable router's pools are made of
PoolEntries == {EA, EB, ENoUrl, EBlank, EBad, ENull}

RECURSIVE SeqsUpTo(_, _)
SeqsUpTo(S, n) ==
  IF n = 0 THEN {<<>>}
  ELSE LET shorter == SeqsUpTo(S, n - 1)
       IN shorter \cup {Append(s, e) : s \in {t \in shorter : Len(t) = n - 1}, e \in S}

Array(items) == [array |-> TRUE, items |-> items]
NotAnArray == [array |-> FALSE, items |-> <<>>]

(***************************************************************************)
(* String.prototype.trim on a token sequence                               *)
(***************************************************************************)
RECURSIVE TrimStart(_)
TrimStart(s) == IF s # <<>> /\ Head(s) = " " THEN TrimStart(Tail(s)) ELSE s

RECURSIVE TrimEnd(_)
TrimEnd(s) ==
  IF s # <<>> /\ s[Len(s)] = " " THEN TrimEnd(SubSeq(s, 1, Len(s) - 1)) ELSE s

Trim(s) == TrimEnd(TrimStart(s))

(***************************************************************************)
(* snapshotConfigs: JSON.stringify of the pool                             *)
(***************************************************************************)
JsonField(key, v) ==
  IF v.type = "undefined" THEN <<>> ELSE <<key, ":", "\"">> \o v.text \o <<"\"">>

JsonEntry(e) ==
  IF e.kind = "object"
  THEN LET n == JsonField("name", e.name)
           u == JsonField("url", e.url)
       IN <<"{">> \o n \o (IF n # <<>> /\ u # <<>> THEN <<",">> ELSE <<>>) \o u \o <<"}">>
  ELSE <<"null">>

RECURSIVE JsonItems(_)
JsonItems(items) ==
  IF items = <<>> THEN <<>>
  ELSE JsonEntry(Head(items))
       \o (IF Tail(items) = <<>> THEN <<>> ELSE <<",">>)
       \o JsonItems(Tail(items))

snapshotConfigs(configs) == <<"[">> \o JsonItems(configs) \o <<"]">>

(***************************************************************************)
(* req-replace.json and the dictionaries loadReplacements builds from it   *)
(* (src/req-obfuscator.js, lines 1-207)                                    *)
(***************************************************************************)
\* an entry of config.rules: a rule object with one pattern -> replacement
\* pair, or something that is no object
RuleObj(active, resObfs, key, value) ==
  [kind |-> "object", active |-> active, resObfs |-> resObfs,
   rule |-> [type |-> "object", pairs |-> <<[key |-> key, value |-> value]>>]]
NoObject(kind) ==
  [kind |-> kind, active |-> "absent", resObfs |-> "absent",
   rule |-> [type |-> "undefined", pairs |-> <<>>]]

RXY == RuleObj("absent", "true", <<"x">>, <<"y">>)
RYZ == RuleObj("true", "true", <<"y">>, <<"z">>)
RXZ == RuleObj("absent", "true", <<"x">>, <<"z">>)
RXYOff == RuleObj("false", "true", <<"x">>, <<"y">>)
RYZForward == RuleObj("absent", "absent", <<"y">>, <<"z">>)
R1Z == RuleObj("absent", "true", <<"1">>, <<"z">>)
RProto == RuleObj("absent", "true", <<"__proto__">>, <<"y">>)
RNull == NoObject("null")
RNumber == NoObject("number")

REmpty == RuleObj("absent", "true", <<>>, <<"y">>)
\* k -> secret, the text 'secret' being the two tokens 'sec' and 'ret'
RSecret == RuleObj("absent", "true", <<"k">>, <<"sec", "ret">>)
RXXZ == RuleObj("absent", "true", <<"x", "x">>, <<"z">>)

RuleObjs == {RXY, RYZ, RXZ, RXYOff, RYZForward, R1Z, RProto, RNull, RNumber}

MissingFile == [exists |-> FALSE, parses |-> FALSE, rulesArray |-> FALSE, rules |-> <<>>]
UnparsableFile == [exists |-> TRUE, parses |-> FALSE, rulesArray |-> FALSE, rules |-> <<>>]
NoRulesArrayFile == [exists |-> TRUE, parses |-> TRUE, rulesArray |-> FALSE, rules |-> <<>>]
RulesFile(rules) == [exists |-> TRUE, parses |-> TRUE, rulesArray |-> TRUE, rules |-> rules]

\* An object used as a dictionary: its own string-keyed properties in the order
\* Object.entries lists them, array-index keys first in ascending numeric order,
\* then the other keys in the order they were created.
Digits == {"0", "1", "2", "3", "4", "5", "6", "7", "8", "9"}

DigitValue(d) ==
  CASE d = "0" -> 0 [] d = "1" -> 1 [] d = "2" -> 2 [] d = "3" -> 3 [] d = "4" -> 4
    [] d = "5" -> 5 [] d = "6" -> 6 [] d = "7" -> 7 [] d = "8" -> 8 [] OTHER -> 9

IsArrayIndex(key) ==
  /\ key # <<>>
  /\ \A i \in 1..Len(key) : key[i] \in Digits
  /\ Len(key) > 1 => key[1] # "0"

RECURSIVE NumericValue(_)
NumericValue(key) ==
  IF key = <<>> THEN 0
  ELSE 10 * NumericValue(SubSeq(key, 1, Len(key) - 1)) + DigitValue(key[Len(key)])

\* obj[key] = value, value a string
\* faulty variant: an existing key keeps its value
PropertySetFirstWins(obj, key, value) ==
  IF \E i \in 1..Len(obj) : obj[i].key = key
  THEN obj
  ELSE Append(obj, [key |-> key, value |-> value])
PropertySet(obj, key, value) ==
  IF key = <<"__proto__">>
  THEN obj        \* Object.prototype's __proto__ setter: a string is ignored
  ELSE IF \E i \in 1..Len(obj) : obj[i].key = key
  THEN [i \in 1..Len(obj) |-> IF obj[i].key = key THEN [obj[i] EXCEPT !.value = value]
                                                   ELSE obj[i]]
  ELSE IF IsArrayIndex(key)
  THEN LET before == Cardinality({i \in 1..Len(obj) :
                       /\ IsArrayIndex(obj[i].key)
                       /\ NumericValue(obj[i].key) < NumericValue(key)})
       IN SubSeq(obj, 1, before) \o <<[key |-> key, value |-> value]>>
          \o SubSeq(obj, before + 1, Len(obj))
  ELSE Append(obj, [key |-> key, value |-> value])

\* line 41 and line 56
\* faulty variant: active === true
IsActiveWhenTrue(ruleObj) == ruleObj.active = "true"
IsActive(ruleObj) == ruleObj.active # "false"

\* line 57
\* faulty variant: res-obfs !== false
IsResObfsByDefault(ruleObj) == ruleObj.resObfs # "false"
IsResObfs(ruleObj) == ruleObj.resObfs = "true"

\* lines 43 and 59: ruleObj.rule && typeof ruleObj.rule === 'object'
HasRule(ruleObj) == ruleObj.rule.type = "object"

\* lines 44-46 and 61-63: the pairs of one rule, forward or reversed
RECURSIVE SetPairs(_, _, _)
SetPairs(obj, pairs, reversed) ==
  IF pairs = <<>> THEN obj
  ELSE LET p == Head(pairs)
       IN SetPairs(IF reversed THEN PropertySet(obj, p.value, p.key)
                               ELSE PropertySet(obj, p.key, p.value),
                   Tail(pairs), reversed)

\* lines 37-49
RECURSIVE BuildRequest(_, _)
BuildRequest(rules, obj) ==
  IF rules = <<>> THEN obj
  ELSE LET ruleObj == Head(rules)
       IN BuildRequest(Tail(rules),
                       IF IsActive(ruleObj) /\ HasRule(ruleObj)
                       THEN SetPairs(obj, ruleObj.rule.pairs, FALSE)
                       ELSE obj)

\* lines 52-66
RECURSIVE BuildResponse(_, _)
BuildResponse(rules, obj) ==
  IF rules = <<>> THEN obj
  ELSE LET ruleObj == Head(rules)
       IN BuildResponse(Tail(rules),
                        IF IsActive(ruleObj) /\ IsResObfs(ruleObj) /\ HasRule(ruleObj)
                        THEN SetPairs(obj, ruleObj.rule.pairs, TRUE)
                        ELSE obj)

Disabled == [request |-> <<>>, response |-> <<>>]

\* lines 41 and 56: ruleObj.active of null is a TypeError
\* faulty variant: null is read like an object without properties
ReadNeverThrows(ruleObj) == FALSE
ReadThrows(ruleObj) == ruleObj.kind = "null"

\* lines 15-76: the two dictionaries a load leaves
Loaded(file) ==
  IF ~file.exists THEN Disabled                                  \* lines 19-24
  ELSE IF ~file.parses THEN Disabled                             \* lines 27, 71-75
  ELSE IF ~file.rulesArray THEN Disabled                         \* lines 29-34
  ELSE IF \E i \in 1..Len(file.rules) : ReadThrows(file.rules[i])
  THEN Disabled                                                  \* lines 41, 71-75
  ELSE [request |-> BuildRequest(file.rules, <<>>),
        response |-> BuildResponse(file.rules, <<>>)]

\* faulty variant: the load is left after line 49, the reverse dictionary untouched
loadRequestOnly ==
  /\ requestReplacements' = Loaded(ruleFile).request
  /\ fresh' = TRUE
  /\ UNCHANGED <<responseReplacements, ruleFile, routerVars, readerVars, serviceVars>>
loadReplacements ==
  /\ requestReplacements' = Loaded(ruleFile).request
  /\ responseReplacements' = Loaded(ruleFile).response
  /\ fresh' = TRUE
  /\ UNCHANGED <<ruleFile, routerVars, readerVars, serviceVars>>

\* the file is rewritten between loads
WriteFile(file) ==
  /\ file # ruleFile
  /\ ruleFile' = file
  /\ fresh' = FALSE
  /\ UNCHANGED <<requestReplacements, responseReplacements, routerVars, readerVars, serviceVars>>

AppendRule == \E ruleObj \in RuleObjs :
  /\ Len(ruleFile.rules) < MaxRules
  /\ WriteFile(RulesFile(Append(ruleFile.rules, ruleObj)))

DropRule == \E i \in 1..Len(ruleFile.rules) :
  WriteFile(RulesFile(SubSeq(ruleFile.rules, 1, i - 1)
                      \o SubSeq(ruleFile.rules, i + 1, Len(ruleFile.rules))))

DeleteFile == WriteFile(MissingFile)

CorruptFile == WriteFile(UnparsableFile)

DropRulesArray == WriteFile(NoRulesArrayFile)

\* the obfuscator with no rule file, for the specifications of the router
RulesIdle ==
  /\ ruleFile = MissingFile
  /\ requestReplacements = <<>>
  /\ responseReplacements = <<>>
  /\ fresh = TRUE

(***************************************************************************)
(* The transforms (src/req-obfuscator.js, lines 83-203)                    *)
(*                                                                         *)
(* A JavaScript value: its type, who allocated it ("value" for a           *)
(* primitive, "caller" for an array, object or Buffer the caller made,     *)
(* "callee" for one a transform made), the text of a string or number or   *)
(* the bytes of a Buffer, and the elements of an array or the properties   *)
(* of an object in Object.entries order.                                   *)
(***************************************************************************)
JsString(text) == [t |-> "string", alloc |-> "value", text |-> text, items |-> <<>>]
JsNumber(text) == [t |-> "number", alloc |-> "value", text |-> text, items |-> <<>>]
JsBoolean(text) == [t |-> "boolean", alloc |-> "value", text |-> text, items |-> <<>>]
JsNull == [t |-> "null", alloc |-> "value", text |-> <<>>, items |-> <<>>]
JsUndefined == [t |-> "undefined", alloc |-> "value", text |-> <<>>, items |-> <<>>]
JsArray(alloc, items) == [t |-> "array", alloc |-> alloc, text |-> <<>>, items |-> items]
JsObject(alloc, entries) == [t |-> "object", alloc |-> alloc, text |-> <<>>, items |-> entries]
JsBuffer(alloc, bytes) == [t |-> "buffer", alloc |-> alloc, text |-> bytes, items |-> <<>>]
Prop(key, value) == [key |-> key, value |-> value]

\* lines 90 and 108: str.split(key) with a non-empty key, `piece` being the
\* piece that is read while `rest` is scanned from left to right
RECURSIVE SplitAt(_, _, _)
SplitAt(rest, key, piece) ==
  IF Len(rest) < Len(key) THEN <<piece \o rest>>
  ELSE IF SubSeq(rest, 1, Len(key)) = key
  THEN <<piece>> \o SplitAt(SubSeq(rest, Len(key) + 1, Len(rest)), key, <<>>)
  ELSE SplitAt(Tail(rest), key, Append(piece, Head(rest)))

\* str.split(key): the empty key splits between all code units
\* faulty variant: only the first occurrence splits
SplitOnce(str, key) ==
  IF key = <<>> THEN [i \in 1..Len(str) |-> <<str[i]>>]
  ELSE LET pieces == SplitAt(str, key, <<>>)
       IN IF Len(pieces) = 1 THEN pieces
          ELSE <<pieces[1], SubSeq(str, Len(pieces[1]) + Len(key) + 1, Len(str))>>
Split(str, key) ==
  IF key = <<>> THEN [i \in 1..Len(str) |-> <<str[i]>>]
  ELSE SplitAt(str, key, <<>>)

\* lines 90 and 108: pieces.join(value)
RECURSIVE Join(_, _)
Join(pieces, value) ==
  IF pieces = <<>> THEN <<>>
  ELSE IF Len(pieces) = 1 THEN pieces[1]
  ELSE pieces[1] \o value \o Join(Tail(pieces), value)

\* lines 89-91 and 107-109: the loop over Object.entries of the dictionary
RECURSIVE Substitute(_, _)
Substitute(result, entries) ==
  IF entries = <<>> THEN result
  ELSE Substitute(Join(Split(result, Head(entries).key), Head(entries).value),
                  Tail(entries))

\* lines 84-86 and 102-104: !str || typeof str !== 'string'
Untouched(str) == str.t # "string" \/ str.text = <<>>

\* lines 83-94
obfuscateString(str) ==
  IF Untouched(str) THEN str
  ELSE JsString(Substitute(str.text, requestReplacements))

\* lines 101-112
\* faulty variant: the forward dictionary is applied
deobfuscateForward(str) ==
  IF Untouched(str) THEN str
  ELSE JsString(Substitute(str.text, requestReplacements))
deobfuscateString(str) ==
  IF Untouched(str) THEN str
  ELSE JsString(Substitute(str.text, responseReplacements))

\* lines 121, 134: processObject is given obfuscateString or deobfuscateString
transformFn(str, forward) ==
  IF forward THEN obfuscateString(str) ELSE deobfuscateString(str)

\* lines 146-168
RECURSIVE processObject(_, _)
RECURSIVE processEntries(_, _, _)
processObject(obj, forward) ==
  IF obj.t \in {"null", "undefined"} THEN obj                          \* line 147
  ELSE IF obj.t = "string" THEN transformFn(obj, forward)              \* lines 149-151
  ELSE IF obj.t = "array"                                              \* lines 153-155
  THEN JsArray("callee", [i \in 1..Len(obj.items) |->
                            processObject(obj.items[i], forward)])
  ELSE IF obj.t = "object"                                             \* lines 157-163
  THEN JsObject("callee", processEntries(obj.items, <<>>, forward))
  ELSE obj                                                             \* line 165

\* lines 158-162: result[key] = processObject(value, transformFn)
processEntries(entries, result, forward) ==
  IF entries = <<>> THEN result
  ELSE processEntries(Tail(entries),
                      PropertySet(result, Head(entries).key,
                                  processObject(Head(entries).value, forward)),
                      forward)

\* lines 120, 133, 185: Object.keys(dictionary).length === 0
\* faulty variant: the test never succeeds
NeverNoKeys(dict) == FALSE
NoKeys(dict) == Len(dict) = 0

\* lines 119-125
obfuscateRequestBody(body) ==
  IF NoKeys(requestReplacements) THEN body ELSE processObject(body, TRUE)

\* lines 132-138
deobfuscateResponseBody(body) ==
  IF NoKeys(responseReplacements) THEN body ELSE processObject(body, FALSE)

\* line 189: Buffer.prototype.toString decodes UTF-8, a byte that begins no
\* character becoming U+FFFD; line 192: Buffer.from encodes UTF-8
RECURSIVE Utf8Decode(_)
Utf8Decode(bytes) ==
  IF bytes = <<>> THEN <<>>
  ELSE IF Len(bytes) >= 2 /\ SubSeq(bytes, 1, 2) = <<"0xC3", "0xA9">>
  THEN <<"U+00E9">> \o Utf8Decode(SubSeq(bytes, 3, Len(bytes)))
  ELSE IF Len(bytes) >= 3 /\ SubSeq(bytes, 1, 3) = <<"0xEF", "0xBF", "0xBD">>
  THEN <<"U+FFFD">> \o Utf8Decode(SubSeq(bytes, 4, Len(bytes)))
  ELSE IF Head(bytes) \in {"0xC3", "0xA9", "0xEF", "0xBF", "0xBD"}
  THEN <<"U+FFFD">> \o Utf8Decode(Tail(bytes))
  ELSE <<Head(bytes)>> \o Utf8Decode(Tail(bytes))

RECURSIVE Utf8Encode(_)
Utf8Encode(text) ==
  IF text = <<>> THEN <<>>
  ELSE IF Head(text) = "U+00E9" THEN <<"0xC3", "0xA9">> \o Utf8Encode(Tail(text))
  ELSE IF Head(text) = "U+FFFD"
  THEN <<"0xEF", "0xBF", "0xBD">> \o Utf8Encode(Tail(text))
  ELSE <<Head(text)>> \o Utf8Encode(Tail(text))

\* line 189: chunk.toString() of a string, a Buffer, a number or a boolean
toString(chunk) == IF chunk.t = "buffer" THEN Utf8Decode(chunk.text) ELSE chunk.text

\* the outcome of a call: the value returned, or an exception
Returned(value) == [threw |-> FALSE, value |-> value]
Threw == [threw |-> TRUE, value |-> JsUndefined]

\* lines 184-193: DeobfuscateTransform.transform
transform(chunk) ==
  IF NoKeys(responseReplacements) THEN Returned(chunk)                 \* lines 185-187
  ELSE IF chunk.t \in {"null", "undefined"} THEN Threw                 \* line 189
  ELSE Returned(JsBuffer("callee",
                         Utf8Encode(deobfuscateString(JsString(toString(chunk))).text)))

NotApplied ==
  [fn |-> "none", arg |-> JsUndefined, out |-> JsUndefined, threw |-> FALSE,
   chained |-> FALSE]

\* no DeobfuscateTransform has been constructed
NoStream ==
  [phase |-> "none", buffer |-> <<>>, source |-> <<>>, consumed |-> <<>>,
   emitted |-> <<>>, used |-> <<>>]

\* no transform is called, for the specifications of the other components
ReaderIdle ==
  /\ input = JsUndefined
  /\ applied = NotApplied
  /\ stream = NoStream

(***************************************************************************)
(* The User-Agent version updater at rest (src/user-agent-updater.js)      *)
(***************************************************************************)
\* the updater as the import of the module leaves it, nothing observed yet
NotStarted ==
  [started |-> FALSE, checks |-> 0, attempts |-> 0,
   event |-> [kind |-> "none", issued |-> FALSE, retryCount |-> 0,
              value |-> JsUndefined]]

\* the updater is not started, for the specifications of the other components
UpdaterIdle ==
  /\ userAgent = JsUndefined
  /\ currentVersion = JsNull
  /\ isUpdating = FALSE
  /\ fetches = <<>>
  /\ timers = <<>>
  /\ updater = NotStarted

(***************************************************************************)
(* The 401 error tracker at rest (src/unnamed/part_000, lines 185-535)     *)
(***************************************************************************)
\* what the tracker did last: the store as the operation found it, the range
\* asked for and the records returned
Done(kind, records, keys, range, out) ==
  [kind |-> kind, records |-> records, keys |-> keys, range |-> range, out |-> out]

\* the tracker as the import of the module leaves it, nothing observed yet:
\* no error is recorded
TrackerIdle ==
  /\ error401Records = <<>>
  /\ failedKeysSet = {}
  /\ now = 0
  /\ tracker = [ticks |-> 0, recorded |-> 0,
                event |-> Done("none", <<>>, {}, JsUndefined, <<>>)]


(***************************************************************************)
(* getNextProxyAgent, piece by piece                                       *)
(***************************************************************************)
\* line 20: the early return
\* faulty variant: the length is not looked at
NoPoolNoLengthCheck(proxies) == ~proxies.array
NoPool(proxies) == ~proxies.array \/ Len(proxies.items) = 0

\* line 26
\* faulty variant: the cursor is kept
ResetForgotten(index) == index
ResetIndex(index) == 0

\* line 27
\* faulty variant: the old fingerprint is kept
SnapshotNotRecorded(currentSnapshot, previous) == previous
RecordSnapshot(currentSnapshot, previous) == currentSnapshot

\* line 31: the loop bound
\* faulty variant: attempt <= proxies.length
AttemptLimitOneMore(proxies) == Len(proxies) + 1
AttemptLimit(proxies) == Len(proxies)

\* line 32
\* faulty variant: no modulo
IndexAtNoWrap(index, attempt, length) == index + attempt
IndexAt(index, attempt, length) == (index + attempt) % length

\* line 33: proxies[index]
EntryAt(proxies, index) ==
  IF index \in 0..(Len(proxies) - 1) THEN proxies[index + 1] ELSE EUndefined

\* line 35: "skip" (continue), "try", or the TypeError of reading a property of null
\* faulty variant: no !proxy
CheckEntryNoNullGuard(proxy) ==
  IF proxy.kind # "object" THEN "TypeError"
  ELSE IF proxy.url.type # "string" THEN "skip"
  ELSE IF Trim(proxy.url.text) = <<>> THEN "skip"
  ELSE "try"
CheckEntry(proxy) ==
  IF proxy.kind # "object" THEN "skip"
  ELSE IF proxy.url.type # "string" THEN "skip"
  ELSE IF Trim(proxy.url.text) = <<>> THEN "skip"
  ELSE "try"

\* line 41: new HttpsProxyAgent(url) parses the url and throws when it is none
AgentConstructs(url) == Len(url) >= 2 /\ url[1] = "http://"

\* line 42
\* faulty variants: no modulo; no step
NextIndexNoWrap(index, length) == index + 1
NextIndexStuck(index, length) == index % length
NextIndex(index, length) == (index + 1) % length

\* lines 31-54: the result of the loop from `attempt` on
RECURSIVE Attempts(_, _, _, _)
Attempts(proxies, cursor, attempt, tried) ==
  IF attempt >= AttemptLimit(proxies)
  THEN [kind |-> "exhausted", index |-> -1, tried |-> tried, cursor |-> cursor]
  ELSE LET index == IndexAt(cursor, attempt, Len(proxies))
           proxy == EntryAt(proxies, index)
           seen == Append(tried, index)
           check == CheckEntry(proxy)
       IN IF check = "TypeError"
          THEN [kind |-> "threw", index |-> -1, tried |-> seen, cursor |-> cursor]
          ELSE IF check = "skip"
          THEN Attempts(proxies, cursor, attempt + 1, seen)
          ELSE IF AgentConstructs(proxy.url.text)
          THEN [kind |-> "agent", index |-> index, tried |-> seen,
                cursor |-> NextIndex(index, Len(proxies))]
          ELSE Attempts(proxies, cursor, attempt + 1, seen)

Idle ==
  [kind |-> "idle", index |-> -1, tried |-> <<>>, start |-> 0, before |-> 0,
   changed |-> FALSE, differs |-> FALSE, afterEmpty |-> FALSE]

\* lines 17-55, without the call counter
Call ==
  /\ config' = config
  /\ seenItems' = IF config.array /\ config.items # <<>> THEN config.items ELSE seenItems
  /\ emptySeen' = ~(config.array /\ config.items # <<>>)
  /\ IF NoPool(config)
     THEN /\ UNCHANGED <<proxyIndex, lastSnapshot>>
          /\ last' = [Idle EXCEPT !.kind = "nopool", !.before = proxyIndex,
                                  !.start = proxyIndex]
     ELSE LET proxies == config.items
              currentSnapshot == snapshotConfigs(proxies)
              isNew == currentSnapshot # lastSnapshot
              start == IF isNew THEN ResetIndex(proxyIndex) ELSE proxyIndex
              r == Attempts(proxies, start, 0, <<>>)
          IN /\ proxyIndex' = r.cursor
             /\ lastSnapshot' = IF isNew THEN RecordSnapshot(currentSnapshot, lastSnapshot)
                                ELSE lastSnapshot
             /\ last' = [kind |-> r.kind, index |-> r.index, tried |-> r.tried,
                         start |-> start, before |-> proxyIndex,
                         changed |-> (lastSnapshot' # lastSnapshot),
                         differs |-> (proxies # seenItems),
                         afterEmpty |-> emptySeen]

getNextProxyAgent == Call /\ UNCHANGED <<calls, rulesVars, readerVars, serviceVars>>

(***************************************************************************)
(* The configuration collaborator changes the pool between calls           *)
(***************************************************************************)
Reconfigure(new) ==
  /\ new # config
  /\ config' = new
  /\ last' = Idle
  /\ UNCHANGED <<proxyIndex, lastSnapshot, seenItems, emptySeen, calls, rulesVars, readerVars, serviceVars>>

Grow == \E e \in PoolEntries :
  /\ Len(config.items) < MaxPool
  /\ Reconfigure(Array(Append(config.items, e)))

Shrink == \E i \in 1..Len(config.items) :
  /\ Len(config.items) >= 2
  /\ Reconfigure(Array(SubSeq(config.items, 1, i - 1)
                       \o SubSeq(config.items, i + 1, Len(config.items))))

Reorder == \E i, j \in 1..Len(config.items) :
  /\ i < j
  /\ Reconfigure(Array([config.items EXCEPT ![i] = config.items[j],
                                            ![j] = config.items[i]]))

Empty == Reconfigure(Array(<<>>))

Remove == Reconfigure(NotAnArray)

Restore == seenItems # <<>> /\ Reconfigure(Array(seenItems))

Init ==
  /\ config \in {NotAnArray} \cup {Array(p) : p \in SeqsUpTo(PoolEntries, MaxPool)}
  /\ proxyIndex = 0
  /\ lastSnapshot = <<>>
  /\ last = Idle
  /\ seenItems = <<>>
  /\ emptySeen = FALSE
  /\ calls = 0
  /\ RulesIdle
  /\ ReaderIdle
  /\ UpdaterIdle
  /\ TrackerIdle

Next ==
  \/ getNextProxyAgent
  \/ Grow
  \/ Shrink
  \/ Reorder
  \/ Empty
  \/ Remove
  \/ Restore

Spec == Init /\ [][Next]_vars

(***************************************************************************)
(* The router with an unchanging pool, its calls counted                   *)
(***************************************************************************)
CountedCall ==
  /\ calls < MaxCalls
  /\ Call
  /\ calls' = calls + 1
  /\ UNCHANGED <<rulesVars, readerVars, serviceVars>>

InitFair ==
  /\ config \in {Array(p) : p \in SeqsUpTo(Entries, MaxFairPool) \ {<<>>}}
  /\ proxyIndex = 0
  /\ lastSnapshot = <<>>
  /\ last = Idle
  /\ seenItems = <<>>
  /\ emptySeen = FALSE
  /\ calls = 0
  /\ RulesIdle
  /\ ReaderIdle
  /\ UpdaterIdle
  /\ TrackerIdle

NextFair == CountedCall

SpecFair == InitFair /\ [][NextFair]_vars

(***************************************************************************)
(* The obfuscator's dictionaries: loaded when the module is imported       *)
(* (line 207) and on every later call of loadReplacements                  *)
(***************************************************************************)
RouterIdle ==
  /\ config = NotAnArray
  /\ proxyIndex = 0
  /\ lastSnapshot = <<>>
  /\ last = Idle
  /\ seenItems = <<>>
  /\ emptySeen = FALSE
  /\ calls = 0

InitRules ==
  /\ ruleFile \in {MissingFile, UnparsableFile, NoRulesArrayFile}
                   \cup {RulesFile(r) : r \in SeqsUpTo(RuleObjs, MaxRules)}
  /\ requestReplacements = Loaded(ruleFile).request
  /\ responseReplacements = Loaded(ruleFile).response
  /\ fresh = TRUE
  /\ RouterIdle
  /\ ReaderIdle
  /\ UpdaterIdle
  /\ TrackerIdle

NextRules ==
  \/ loadReplacements
  \/ AppendRule
  \/ DropRule
  \/ DeleteFile
  \/ CorruptFile
  \/ DropRulesArray

SpecRules == InitRules /\ [][NextRules]_vars

(***************************************************************************)
(* The transforms applied to a value, under the dictionaries of one file   *)
(***************************************************************************)
\* the rules of the files the transforms are applied under
ApplyRuleObjs == {RXY, RYZ, RYZForward, R1Z, RProto, REmpty, RXXZ}

\* {"a":["x",{"b":"x"}],"c":null,"d":5} as JSON.parse returns it
BodyNested ==
  JsObject("caller",
           <<Prop(<<"a">>, JsArray("caller",
                                   <<JsString(<<"x">>),
                                     JsObject("caller", <<Prop(<<"b">>, JsString(<<"x">>))>>)>>)),
             Prop(<<"c">>, JsNull),
             Prop(<<"d">>, JsNumber(<<"5">>))>>)
BodyKX == JsObject("caller", <<Prop(<<"k">>, JsString(<<"x">>))>>)
BodyKZ == JsObject("caller", <<Prop(<<"k">>, JsString(<<"z">>))>>)
\* {"k":"x","1":"x"}: the array-index key is listed first
BodyIndexKey ==
  JsObject("caller", <<Prop(<<"1">>, JsString(<<"x">>)), Prop(<<"k">>, JsString(<<"x">>))>>)
\* {"__proto__":"x","k":"x"}: JSON.parse creates an own property __proto__
BodyProtoKey ==
  JsObject("caller", <<Prop(<<"__proto__">>, JsString(<<"x">>)),
                       Prop(<<"k">>, JsString(<<"x">>))>>)
\* {"x":"x"}
BodyKeyLikePattern == JsObject("caller", <<Prop(<<"x">>, JsString(<<"x">>))>>)
BodyArray == JsArray("caller", <<JsString(<<"x">>), JsBoolean(<<"true">>), JsString(<<"y">>)>>)

Letters == {"x", "y"}

Inputs ==
  {JsString(text) : text \in SeqsUpTo(Letters, MaxText)}
    \cup {JsString(<<"z">>), JsString(<<"x", "1">>),
          JsNull, JsUndefined, JsNumber(<<"5">>), JsBoolean(<<"true">>),
          BodyNested, BodyKX, BodyKZ, BodyIndexKey, BodyProtoKey,
          BodyKeyLikePattern, BodyArray,
          JsBuffer("caller", <<"y">>), JsBuffer("caller", <<"x", "z">>),
          JsBuffer("caller", <<"z", "0xC3">>)}

Observe(fn, arg, outcome, chained) ==
  /\ applied' = [fn |-> fn, arg |-> arg, out |-> outcome.value,
                 threw |-> outcome.threw, chained |-> chained]
  /\ UNCHANGED <<input, stream, rulesVars, routerVars, serviceVars>>

CallObfuscateString ==
  Observe("obfuscateString", input, Returned(obfuscateString(input)), FALSE)

CallDeobfuscateString ==
  Observe("deobfuscateString", input, Returned(deobfuscateString(input)), FALSE)

\* a request body is what JSON.parse returns, or a primitive
CallObfuscateRequestBody ==
  /\ input.t # "buffer"
  /\ Observe("obfuscateRequestBody", input, Returned(obfuscateRequestBody(input)), FALSE)

CallDeobfuscateResponseBody ==
  /\ input.t # "buffer"
  /\ Observe("deobfuscateResponseBody", input,
             Returned(deobfuscateResponseBody(input)), FALSE)

\* the obfuscated request body comes back as the response body
CallDeobfuscateObfuscated ==
  /\ applied.fn = "obfuscateRequestBody"
  /\ Observe("deobfuscateResponseBody", applied.out,
             Returned(deobfuscateResponseBody(applied.out)), TRUE)

\* a chunk is a string, a Buffer, or any primitive a caller passes
CallTransform ==
  /\ input.t \notin {"array", "object"}
  /\ Observe("transform", input, transform(input), FALSE)

InitApply ==
  /\ ruleFile \in {MissingFile}
                   \cup {RulesFile(r) : r \in SeqsUpTo(ApplyRuleObjs, MaxRules)}
  /\ requestReplacements = Loaded(ruleFile).request
  /\ responseReplacements = Loaded(ruleFile).response
  /\ fresh = TRUE
  /\ input \in Inputs
  /\ applied = NotApplied
  /\ stream = NoStream
  /\ RouterIdle
  /\ UpdaterIdle
  /\ TrackerIdle

NextApply ==
  \/ CallObfuscateString
  \/ CallDeobfuscateString
  \/ CallObfuscateRequestBody
  \/ CallDeobfuscateResponseBody
  \/ CallDeobfuscateObfuscated
  \/ CallTransform

SpecApply == InitApply /\ [][NextApply]_vars

(***************************************************************************)
(* A streamed response pumped through transformStream (lines 199-203)      *)
(* while the rule file is rewritten and reloaded                           *)
(***************************************************************************)
StreamChunks ==
  {JsBuffer("caller", <<"y">>), JsBuffer("caller", <<"z">>),
   JsBuffer("caller", <<"sec">>), JsBuffer("caller", <<"ret">>)}

StreamConfigurations ==
  {MissingFile, RulesFile(<<RXY>>), RulesFile(<<RYZ>>), RulesFile(<<RSecret>>)}

\* the consumer calls next(): the generator runs up to the await of line 200
StreamNext ==
  /\ stream.phase = "suspended"
  /\ stream' = [stream EXCEPT !.phase = "awaiting"]
  /\ UNCHANGED <<input, applied, rulesVars, routerVars, serviceVars>>

\* the source delivers a chunk: line 201 transforms it and yields the result
\* faulty variant: the chunk is kept in this.buffer and the next one awaited
StreamChunkBuffered ==
  /\ stream.phase = "awaiting"
  /\ stream.source # <<>>
  /\ stream' = [stream EXCEPT
                  !.buffer = stream.buffer \o toString(Head(stream.source)),
                  !.source = Tail(stream.source),
                  !.consumed = Append(stream.consumed, Head(stream.source)),
                  !.used = Append(stream.used, responseReplacements)]
  /\ UNCHANGED <<input, applied, rulesVars, routerVars, serviceVars>>
StreamChunk ==
  /\ stream.phase = "awaiting"
  /\ stream.source # <<>>
  /\ LET chunk == Head(stream.source)
         outcome == transform(chunk)
     IN stream' = [stream EXCEPT
                     !.phase = IF outcome.threw THEN "failed" ELSE "suspended",
                     !.source = Tail(stream.source),
                     !.consumed = Append(stream.consumed, chunk),
                     !.emitted = IF outcome.threw THEN stream.emitted
                                 ELSE Append(stream.emitted, outcome.value),
                     !.used = Append(stream.used, responseReplacements)]
  /\ UNCHANGED <<input, applied, rulesVars, routerVars, serviceVars>>

\* the source ends: the loop of line 200 is left and the generator returns
StreamEnd ==
  /\ stream.phase = "awaiting"
  /\ stream.source = <<>>
  /\ stream' = [stream EXCEPT !.phase = "done"]
  /\ UNCHANGED <<input, applied, rulesVars, routerVars, serviceVars>>

ReplaceFile == \E file \in StreamConfigurations : WriteFile(file)

InitStream ==
  /\ ruleFile \in StreamConfigurations
  /\ requestReplacements = Loaded(ruleFile).request
  /\ responseReplacements = Loaded(ruleFile).response
  /\ fresh = TRUE
  /\ input = JsUndefined
  /\ applied = NotApplied
  /\ stream \in {[NoStream EXCEPT !.phase = "suspended", !.source = chunks] :
                   chunks \in SeqsUpTo(StreamChunks, MaxChunks)}
  /\ RouterIdle
  /\ UpdaterIdle
  /\ TrackerIdle

NextStream ==
  \/ loadReplacements
  \/ ReplaceFile
  \/ StreamNext
  \/ StreamChunk
  \/ StreamEnd

SpecStream == InitStream /\ [][NextStream]_vars

(***************************************************************************)
(* The User-Agent version updater (src/user-agent-updater.js)              *)
(***************************************************************************)
MAX_RETRIES == 3

\* a token that \d+\.\d+\.\d+ matches from its first character to its last
IsVersionToken(token) == token \in {"0.19.3", "1.2.3", "0.20.0", "0.21.0"}

\* cfg.user_agent: not set, naming a version, naming none
UserAgents ==
  {JsUndefined, JsString(<<"factory-cli", "/", "1.2.3">>), JsString(<<"curl">>)}

\* lines 14-19
getDefaultVersion ==
  LET ua == IF userAgent.t = "string" /\ userAgent.text # <<>> THEN userAgent.text
            ELSE <<"factory-cli", "/", "0.19.3">>
      hits == {i \in 1..(Len(ua) - 1) : ua[i] = "/" /\ IsVersionToken(ua[i + 1])}
  IN IF hits = {} THEN JsString(<<"0.19.3">>)
     ELSE JsString(<<ua[(CHOOSE i \in hits : \A j \in hits : i <= j) + 1]>>)

\* lines 21-25: currentVersion after initializeVersion()
initializeVersion ==
  IF currentVersion = JsNull THEN getDefaultVersion ELSE currentVersion

\* how a request of fetchLatestVersion ends
Outcomes ==
  {[kind |-> "response", status |-> 200, data |-> <<"0.20.0", " ">>],
   [kind |-> "response", status |-> 200, data |-> <<"0.19.3">>],
   [kind |-> "response", status |-> 200, data |-> <<"0.21.0", "-beta">>],
   [kind |-> "response", status |-> 200, data |-> <<"latest">>],
   [kind |-> "response", status |-> 200, data |-> <<>>],
   [kind |-> "response", status |-> 404, data |-> <<"0.20.0">>],
   [kind |-> "error", status |-> 0, data |-> <<>>],                \* lines 56-58
   [kind |-> "timeout", status |-> 0, data |-> <<>>]}              \* lines 60-63

\* lines 32-65: the promise resolves with the trimmed body if the status is
\* 200 and the body begins with a version, and rejects otherwise
fetchLatestVersion(outcome) ==
  IF /\ outcome.kind = "response"
     /\ outcome.status = 200                                       \* line 37
     /\ Trim(outcome.data) # <<>>                                  \* lines 47-48
     /\ IsVersionToken(Head(Trim(outcome.data)))
  THEN [resolved |-> TRUE, version |-> JsString(Trim(outcome.data))]
  ELSE [resolved |-> FALSE, version |-> JsUndefined]

Event(kind, issued, retryCount, value) ==
  [kind |-> kind, issued |-> issued, retryCount |-> retryCount, value |-> value]

\* line 68
\* faulty variant: no lock
NeverLocked == FALSE
Locked == isUpdating

\* lines 67-75: updateVersionWithRetry up to its await; `base` is the record
\* of the updater as the caller leaves it
updateVersionWithRetry(retryCount, kind, base) ==
  IF Locked
  THEN /\ UNCHANGED <<isUpdating, fetches>>                        \* lines 68-70
       /\ updater' = [base EXCEPT !.event = Event(kind, FALSE, retryCount, JsUndefined)]
  ELSE /\ isUpdating' = TRUE                                       \* line 72
       /\ fetches' = Append(fetches, retryCount)                   \* line 75
       /\ updater' = [base EXCEPT !.attempts = IF retryCount = 0 THEN 1 ELSE @ + 1,
                                  !.event = Event(kind, TRUE, retryCount, JsUndefined)]

\* lines 27-30
getCurrentUserAgent ==
  /\ currentVersion' = initializeVersion
  /\ updater' = [updater EXCEPT
                   !.event = Event("agent", FALSE, 0,
                                   JsString(<<"factory-cli", "/">> \o initializeVersion.text))]
  /\ UNCHANGED <<userAgent, isUpdating, fetches, timers, routerVars, rulesVars, readerVars, trackerVars>>

\* lines 99-114
initializeUserAgentUpdater ==
  /\ ~updater.started
  /\ currentVersion' = initializeVersion                           \* line 100
  /\ updateVersionWithRetry(0, "startup", [updater EXCEPT !.started = TRUE])
  /\ UNCHANGED <<userAgent, timers, routerVars, rulesVars, readerVars, trackerVars>>

\* lines 108-111: the interval fires
HourlyCheck ==
  /\ updater.started
  /\ updater.checks < MaxChecks
  /\ updateVersionWithRetry(0, "check", [updater EXCEPT !.checks = @ + 1])
  /\ UNCHANGED <<userAgent, currentVersion, timers, routerVars, rulesVars, readerVars, trackerVars>>

\* lines 89-91: the oldest retry timer fires
RetryTimerFires ==
  /\ timers # <<>>
  /\ timers' = Tail(timers)
  /\ updateVersionWithRetry(Head(timers), "retry", updater)
  /\ UNCHANGED <<userAgent, currentVersion, routerVars, rulesVars, readerVars, trackerVars>>

\* lines 75-83: a request ends with a version
FetchResolves ==
  \E i \in 1..Len(fetches), outcome \in Outcomes :
    /\ fetchLatestVersion(outcome).resolved
    /\ fetches' = SubSeq(fetches, 1, i - 1) \o SubSeq(fetches, i + 1, Len(fetches))
    /\ currentVersion' = fetchLatestVersion(outcome).version       \* lines 76-78
    /\ isUpdating' = FALSE                                         \* line 83
    /\ updater' = [updater EXCEPT
                     !.event = Event("resolved", FALSE, fetches[i],
                                     fetchLatestVersion(outcome).version)]
    /\ UNCHANGED <<userAgent, timers, routerVars, rulesVars, readerVars, trackerVars>>

\* lines 84-96: a request ends without one
FetchRejects ==
  \E i \in 1..Len(fetches), outcome \in Outcomes :
    /\ ~fetchLatestVersion(outcome).resolved
    /\ fetches' = SubSeq(fetches, 1, i - 1) \o SubSeq(fetches, i + 1, Len(fetches))
    /\ IF fetches[i] < MAX_RETRIES - 1                             \* line 87
       THEN /\ timers' = Append(timers, fetches[i] + 1)            \* lines 89-91
            /\ UNCHANGED isUpdating
            /\ updater' = [updater EXCEPT
                             !.event = Event("rejected", FALSE, fetches[i], JsUndefined)]
       ELSE /\ isUpdating' = FALSE                                 \* line 94
            /\ UNCHANGED timers
            /\ updater' = [updater EXCEPT
                             !.event = Event("gaveUp", FALSE, fetches[i], JsUndefined)]
    /\ UNCHANGED <<userAgent, currentVersion, routerVars, rulesVars, readerVars, trackerVars>>

InitUpdater ==
  /\ userAgent \in UserAgents
  /\ currentVersion = JsNull
  /\ isUpdating = FALSE
  /\ fetches = <<>>
  /\ timers = <<>>
  /\ updater = NotStarted
  /\ RouterIdle
  /\ RulesIdle
  /\ ReaderIdle
  /\ TrackerIdle

NextUpdater ==
  \/ getCurrentUserAgent
  \/ initializeUserAgentUpdater
  \/ HourlyCheck
  \/ RetryTimerFires
  \/ FetchResolves
  \/ FetchRejects

SpecUpdater == InitUpdater /\ [][NextUpdater]_vars

\* the interval and the timers fire, and every request ends (by the timeout
\* of line 60 at the latest)
SpecUpdaterFair ==
  /\ InitUpdater
  /\ [][NextUpdater]_vars
  /\ WF_vars(HourlyCheck)
  /\ WF_vars(RetryTimerFires)
  /\ WF_vars(FetchResolves \/ FetchRejects)

(***************************************************************************)
(* The 401 error tracker (src/unnamed/part_000, lines 185-535); time is    *)
(* counted in hours                                                        *)
(***************************************************************************)
RETENTION_DAYS == 15
DAY == 24
RETENTION_MS == RETENTION_DAYS * DAY

\* errorInfo.apiKey
ApiKeys ==
  {JsUndefined, JsString(<<>>), JsString(<<"k1">>), JsString(<<"k2">>),
   JsString(<<"Bearer", " ", "k1">>), JsString(<<"Bearer", " ">>)}

\* lines 212-227: the first 12 hex digits of the SHA-256 of the key
generateKeyHash(apiKey) ==
  LET text == apiKey.text
      \* line 218: apiKey.replace(/^Bearer\s+/i, '').trim()
      key == Trim(IF Len(text) >= 2 /\ Head(text) \in {"Bearer", "bearer"} /\ text[2] = " "
                  THEN TrimStart(Tail(text))
                  ELSE text)
  IN IF apiKey.t # "string" \/ text = <<>> THEN <<"unknown">>      \* lines 213-215
     ELSE IF key = <<>> THEN <<"unknown">>                          \* lines 220-222
     ELSE <<"sha256">> \o key

Record(timestamp, keyHash, isFirstFail) ==
  [timestamp |-> timestamp, keyHash |-> keyHash, isFirstFail |-> isFirstFail]

\* lines 283 and 329: the test of the filter
\* faulty variant: the record at the cutoff is dropped
RetainedAfter(record, cutoff) == record.timestamp > cutoff
Retained(record, cutoff) == record.timestamp >= cutoff

\* Array.prototype.filter with that test
RECURSIVE filter(_, _)
filter(records, cutoff) ==
  IF records = <<>> THEN <<>>
  ELSE IF Retained(Head(records), cutoff)
       THEN <<Head(records)>> \o filter(Tail(records), cutoff)
       ELSE filter(Tail(records), cutoff)

\* line 290
KeyHashes(records) == {records[i].keyHash : i \in 1..Len(records)}

\* lines 288-301: failedKeysSet after the cleanup
\* faulty variant: the set is left as it is
NotSynced(keys, before, after) == keys
Synced(keys, before, after) ==
  IF Len(before) > Len(after) THEN keys \cap KeyHashes(after) ELSE keys

\* lines 239-271
record401Error ==
  \E apiKey \in ApiKeys :
    /\ tracker.recorded < MaxRecords
    /\ LET keyHash == generateKeyHash(apiKey)
           isFirstFail == keyHash \notin failedKeysSet               \* line 244
       IN /\ failedKeysSet' = IF isFirstFail THEN failedKeysSet \cup {keyHash}
                              ELSE failedKeysSet                     \* lines 247-249
          /\ error401Records' = Append(error401Records,
                                       Record(now, keyHash, isFirstFail))
    /\ tracker' = [tracker EXCEPT
                     !.recorded = @ + 1,
                     !.event = Done("record", error401Records, failedKeysSet,
                                    JsUndefined, <<>>)]
    /\ UNCHANGED <<now, routerVars, rulesVars, readerVars, updaterVars>>

\* lines 276-304
cleanupOldRecords ==
  /\ error401Records' = filter(error401Records, now - RETENTION_MS)
  /\ failedKeysSet' = Synced(failedKeysSet, error401Records,
                             filter(error401Records, now - RETENTION_MS))
  /\ tracker' = [tracker EXCEPT
                   !.event = Done("cleanup", error401Records, failedKeysSet,
                                  JsUndefined, <<>>)]
  /\ UNCHANGED <<now, routerVars, rulesVars, readerVars, updaterVars>>

\* the ranges asked for: none, day counts, hour counts, and no count at all
TimeRanges ==
  {JsUndefined, JsNumber(<<"1">>), JsNumber(<<"0">>), JsNumber(<<"99">>),
   JsString(<<"15">>), JsString(<<"6", "h">>), JsString(<<"999", "h">>),
   JsString(<<"h">>), JsString(<<"abc">>)}

\* parseInt: the number the text begins with, or NaN
parseInt(value) ==
  LET numerals == [token \in {"0", "1", "6", "15", "99", "999"} |->
                     CASE token = "0" -> 0 [] token = "1" -> 1 [] token = "6" -> 6
                       [] token = "15" -> 15 [] token = "99" -> 99 [] token = "999" -> 999]
  IN IF value.text # <<>> /\ Head(value.text) \in DOMAIN numerals
     THEN [nan |-> FALSE, n |-> numerals[Head(value.text)]]
     ELSE [nan |-> TRUE, n |-> 0]

\* line 317: typeof timeRange === 'string' && timeRange.endsWith('h')
IsHours(timeRange) ==
  timeRange.t = "string" /\ timeRange.text # <<>>
    /\ timeRange.text[Len(timeRange.text)] = "h"

\* lines 317-327: cutoffTime, NaN when the range holds no number
cutoffTime(timeRange) ==
  LET given == IF timeRange = JsUndefined THEN JsNumber(<<"1">>) ELSE timeRange  \* line 311
      count == parseInt(given)
      atLeastOne == IF 1 >= count.n THEN 1 ELSE count.n              \* Math.max
      days == IF atLeastOne <= RETENTION_DAYS THEN atLeastOne ELSE RETENTION_DAYS
  IN IF count.nan THEN count
     ELSE IF IsHours(given) THEN [count EXCEPT !.n = now - count.n]  \* lines 319-320
     ELSE [count EXCEPT !.n = now - days * DAY]                      \* lines 324-325

\* lines 311-334: no timestamp is >= NaN
get401Records ==
  \E timeRange \in TimeRanges :
    /\ tracker' = [tracker EXCEPT
                     !.event =
                       Done("query", error401Records, failedKeysSet, timeRange,
                            IF cutoffTime(timeRange).nan THEN <<>>
                            ELSE filter(error401Records, cutoffTime(timeRange).n))]
    /\ UNCHANGED <<error401Records, failedKeysSet, now,
                   routerVars, rulesVars, readerVars, updaterVars>>

\* time passes: an hour, a day or the retention period
Tick ==
  \E step \in {1, DAY, RETENTION_MS} :
    /\ tracker.ticks < MaxTicks
    /\ now' = now + step
    /\ tracker' = [tracker EXCEPT
                     !.ticks = @ + 1,
                     !.event = Done("tick", error401Records, failedKeysSet,
                                    JsUndefined, <<>>)]
    /\ UNCHANGED <<error401Records, failedKeysSet,
                   routerVars, rulesVars, readerVars, updaterVars>>

InitTracker ==
  /\ TrackerIdle
  /\ RouterIdle
  /\ RulesIdle
  /\ ReaderIdle
  /\ UpdaterIdle

NextTracker ==
  \/ record401Error
  \/ cleanupOldRecords
  \/ get401Records
  \/ Tick

SpecTracker == InitTracker /\ [][NextTracker]_vars

(***************************************************************************)
(* Claims about the router                                                 *)
(***************************************************************************)
items == config.items

\* an entry a call can return: a non-blank string url whose connector constructs
Usable(e) ==
  /\ e.kind = "object"
  /\ e.url.type = "string"
  /\ Trim(e.url.text) # <<>>
  /\ AgentConstructs(e.url.text)

\* a call that fetched the current, non-empty pool has just returned
CalledOnPool == config.array /\ items # <<>> /\ last.kind # "idle"

\* the index `offset` steps after `from`, cyclically
Cyclic(from, offset) == (from + offset) % Len(items)

\* C1: from a fresh router with an unchanging pool of n entries, all valid, the
\* k-th call returns the entry at index (k-1) mod n.
C1_RoundRobin ==
  (calls >= 1 /\ \A i \in 1..Len(items) : Usable(items[i]))
    => /\ last.kind = "agent"
       /\ last.index = (calls - 1) % Len(items)

\* the fourth call on [A, B, C] has returned A again
C1_Witness ==
  /\ items = <<EA, EB, EC>>
  /\ calls = 4
  /\ last.kind = "agent"
  /\ items[last.index + 1] = EA

\* C2: on a pool with a usable entry a call returns the first usable entry in
\* cyclic order from the cursor the attempts began at, having skipped exactly the
\* entries before it, and leaves the cursor one past the returned index.
C2_Failover ==
  (CalledOnPool /\ \E i \in 1..Len(items) : Usable(items[i]))
    => LET first == CHOOSE a \in 0..(Len(items) - 1) :
                      /\ Usable(items[Cyclic(last.start, a) + 1])
                      /\ \A b \in 0..(a - 1) : ~Usable(items[Cyclic(last.start, b) + 1])
       IN /\ last.kind = "agent"
          /\ last.index = Cyclic(last.start, first)
          /\ last.tried = [t \in 1..(first + 1) |-> Cyclic(last.start, t - 1)]
          /\ proxyIndex = (last.index + 1) % Len(items)

\* a repeated call on [invalid, B] has skipped index 0 and returned B again
C2_Witness ==
  /\ items = <<EBlank, EB>>
  /\ ~last.differs
  /\ last.before = 0
  /\ last.tried = <<0, 1>>
  /\ last.kind = "agent"
  /\ last.index = 1
  /\ proxyIndex = 0

\* C3: a call that fetches a pool differing from the pool last seen starts its
\* attempts at index 0.
C3_ResetOnChange ==
  (CalledOnPool /\ last.differs)
    => /\ last.start = 0
       /\ last.tried # <<>>
       /\ last.tried[1] = 0

\* the cursor stood at 1 when a call found a different pool of two entries
C3_Witness ==
  /\ CalledOnPool
  /\ last.differs
  /\ last.before = 1
  /\ Len(items) = 2
  /\ last.tried[1] = 0

\* C4 as stated: the cursor is inside the configured pool in every state.
C4_CursorInConfiguredPool ==
  (config.array /\ items # <<>>) => proxyIndex \in 0..(Len(items) - 1)

\* C4 as amended: the cursor is never negative, and it is inside the configured
\* pool whenever that pool is the one whose fingerprint is recorded, which it is
\* from the return of every call on it until the pool is changed.
C4_CursorInSeenPool ==
  /\ proxyIndex >= 0
  /\ CalledOnPool => lastSnapshot = snapshotConfigs(items)
  /\ (config.array /\ items # <<>> /\ lastSnapshot = snapshotConfigs(items))
       => proxyIndex \in 0..(Len(items) - 1)

\* the pool was shrunk under a cursor that no longer fits it, and the next call
\* on it has returned an entry and left the cursor inside the pool
C4_Witness ==
  /\ CalledOnPool
  /\ last.before >= Len(items)
  /\ last.kind = "agent"
  /\ proxyIndex \in 0..(Len(items) - 1)

\* C5: every index a call reads is inside the pool it fetched, and in every
\* state another caller can observe, the recorded fingerprint is that of the
\* pool last seen and the cursor is an index of that pool.
C5_IndexSafety ==
  /\ CalledOnPool => \A t \in 1..Len(last.tried) : last.tried[t] \in 0..(Len(items) - 1)
  /\ lastSnapshot = (IF seenItems = <<>> THEN <<>> ELSE snapshotConfigs(seenItems))
  /\ seenItems # <<>> => proxyIndex \in 0..(Len(seenItems) - 1)
  /\ seenItems = <<>> => proxyIndex = 0

\* a call met a new pool too short for the cursor left by the old one
C5_Witness ==
  /\ CalledOnPool
  /\ last.changed
  /\ last.before >= Len(items)
  /\ last.tried # <<>>

\* C6: on a non-empty pool without a usable entry a call returns none, does not
\* throw, and leaves the cursor where it stood when the attempts began.
C6_Exhaustion ==
  (CalledOnPool /\ \A i \in 1..Len(items) : ~Usable(items[i]))
    => /\ last.kind = "exhausted"
       /\ last.index = -1
       /\ proxyIndex = last.start

\* a pool of a null entry and an entry whose connector throws was exhausted
C6_Witness ==
  /\ items = <<ENull, EBad>>
  /\ last.kind = "exhausted"
  /\ last.tried = <<0, 1>>

\* C7: a call examines at most pool.length entries, no index twice, and an
\* exhausted call has examined every index exactly once.
C7_BoundedAttempts ==
  CalledOnPool
    => /\ Len(last.tried) <= Len(items)
       /\ \A s, t \in 1..Len(last.tried) : s # t => last.tried[s] # last.tried[t]
       /\ last.kind = "exhausted" => Len(last.tried) = Len(items)

\* a call starting at index 1 wrapped around to index 0 in a pool of two
C7_Witness ==
  /\ CalledOnPool
  /\ Len(items) = 2
  /\ last.start = 1
  /\ last.tried = <<1, 0>>

\* C8: a call that finds no array or an empty one returns none at once and
\* leaves cursor and fingerprint as they were; a pool emptied and restored to
\* the content last seen is resumed at the cursor it was left with.
C8_NoPool ==
  /\ (last.kind # "idle" /\ ~(config.array /\ items # <<>>))
       => /\ last.kind = "nopool"
          /\ last.index = -1
          /\ last.tried = <<>>
          /\ ~last.changed
          /\ proxyIndex = last.before
  /\ (CalledOnPool /\ last.afterEmpty /\ ~last.differs)
       => /\ ~last.changed
          /\ last.start = last.before

\* after a call on the emptied pool, the restored pool was resumed at index 1
C8_Witness ==
  /\ CalledOnPool
  /\ last.afterEmpty
  /\ ~last.differs
  /\ last.start = 1
  /\ last.kind = "agent"

\* a call has returned none for an emptied pool while the cursor stood at 1
C8_WitnessEmpty ==
  /\ last.kind = "nopool"
  /\ config.array
  /\ proxyIndex = 1

(***************************************************************************)
(* Claims about the rule compiler                                          *)
(***************************************************************************)
rules == ruleFile.rules

\* the dictionaries are those of the file as it is, and every entry of its
\* rules array is a rule
LoadedRules ==
  /\ fresh
  /\ ruleFile.exists /\ ruleFile.parses /\ ruleFile.rulesArray
  /\ \A i \in 1..Len(rules) : rules[i].kind = "object" /\ HasRule(rules[i])

Pattern(i) == rules[i].rule.pairs[1].key
Replacement(i) == rules[i].rule.pairs[1].value
Active(i) == rules[i].active # "false"
Reversible(i) == rules[i].resObfs = "true"

Maps(dict, key, value) ==
  \E j \in 1..Len(dict) : dict[j].key = key /\ dict[j].value = value
HasKey(dict, key) == \E j \in 1..Len(dict) : dict[j].key = key

\* every entry of the dictionaries comes from a rule entitled to it
OnlyEntitled ==
  /\ \A j \in 1..Len(requestReplacements) :
       \E i \in 1..Len(rules) :
         /\ Active(i)
         /\ Pattern(i) = requestReplacements[j].key
         /\ Replacement(i) = requestReplacements[j].value
  /\ \A j \in 1..Len(responseReplacements) :
       \E i \in 1..Len(rules) :
         /\ Active(i) /\ Reversible(i)
         /\ Replacement(i) = responseReplacements[j].key
         /\ Pattern(i) = responseReplacements[j].value

\* rule i's pattern is a forward key, and if reversible its replacement a reverse key
Contributes(i) ==
  /\ HasKey(requestReplacements, Pattern(i))
  /\ Reversible(i) => HasKey(responseReplacements, Replacement(i))

\* C9: after a load an inactive rule contributes to neither dictionary, an
\* active rule contributes its pattern to the forward dictionary and, when
\* reversible, its replacement to the reverse dictionary, and a rule that is
\* not reversible contributes nothing to the reverse dictionary.
C9_RuleInclusion ==
  LoadedRules
    => /\ OnlyEntitled
       /\ \A i \in 1..Len(rules) : Active(i) => Contributes(i)

\* C9 for the rules whose pattern and replacement are not "__proto__"
C9_RuleInclusionButProto ==
  LoadedRules
    => /\ OnlyEntitled
       /\ \A i \in 1..Len(rules) :
            (Active(i) /\ Pattern(i) # <<"__proto__">>
                       /\ Replacement(i) # <<"__proto__">>) => Contributes(i)

\* rule j is the later of two active rules with the same pattern, and the last
LaterSamePattern(i, j) ==
  /\ i < j /\ Active(i) /\ Active(j) /\ Pattern(i) = Pattern(j)
  /\ \A k \in (j + 1)..Len(rules) : ~(Active(k) /\ Pattern(k) = Pattern(j))

\* rule j is the later of two active reversible rules with the same replacement
LaterSameReplacement(i, j) ==
  /\ i < j /\ Active(i) /\ Active(j) /\ Reversible(i) /\ Reversible(j)
  /\ Replacement(i) = Replacement(j)
  /\ \A k \in (j + 1)..Len(rules) :
       ~(Active(k) /\ Reversible(k) /\ Replacement(k) = Replacement(j))

\* C10: of two active rules with the same pattern the later one's replacement is
\* what the forward dictionary maps the pattern to; of two active reversible
\* rules with the same replacement the later one's pattern is what the reverse
\* dictionary maps the replacement to.
C10_LastWriterWins ==
  LoadedRules
    => \A i, j \in 1..Len(rules) :
         /\ LaterSamePattern(i, j)
              => Maps(requestReplacements, Pattern(j), Replacement(j))
         /\ LaterSameReplacement(i, j)
              => Maps(responseReplacements, Replacement(j), Pattern(j))

\* C10 for the keys that are not "__proto__"
C10_LastWriterWinsButProto ==
  LoadedRules
    => \A i, j \in 1..Len(rules) :
         /\ (LaterSamePattern(i, j) /\ Pattern(j) # <<"__proto__">>)
              => Maps(requestReplacements, Pattern(j), Replacement(j))
         /\ (LaterSameReplacement(i, j) /\ Replacement(j) # <<"__proto__">>)
              => Maps(responseReplacements, Replacement(j), Pattern(j))

\* the file is absent, unparsable, or its rules field is no array
MissingOrMalformed == ~ruleFile.exists \/ ~ruleFile.parses \/ ~ruleFile.rulesArray

NoDictionaries == requestReplacements = <<>> /\ responseReplacements = <<>>

\* the entries of the rules array that are objects
IsObjectEntry(ruleObj) == ruleObj.kind = "object"
ObjectRules == SelectSeq(rules, IsObjectEntry)

C11_WitnessNumber ==
  /\ fresh
  /\ rules = <<RNumber, RXY>>
  /\ requestReplacements = <<[key |-> <<"x">>, value |-> <<"y">>]>>

\* the first rule entitled to the forward key, and to the reverse key
FirstPattern(key) ==
  CHOOSE i \in 1..Len(rules) :
    /\ Active(i) /\ Pattern(i) = key
    /\ \A k \in 1..(i - 1) : ~(Active(k) /\ Pattern(k) = key)
FirstReplacement(key) ==
  CHOOSE i \in 1..Len(rules) :
    /\ Active(i) /\ Reversible(i) /\ Replacement(i) = key
    /\ \A k \in 1..(i - 1) : ~(Active(k) /\ Reversible(k) /\ Replacement(k) = key)

\* C12: the entries of each dictionary are iterated, and so applied, in the
\* order in which their patterns first appear in the rules array.
C12_DictionaryOrder ==
  LoadedRules
    => /\ \A a, b \in 1..Len(requestReplacements) :
            a < b => FirstPattern(requestReplacements[a].key)
                       < FirstPattern(requestReplacements[b].key)
       /\ \A a, b \in 1..Len(responseReplacements) :
            a < b => FirstReplacement(responseReplacements[a].key)
                       < FirstReplacement(responseReplacements[b].key)

\* C12 for the keys that are no array indices
C12_DictionaryOrderButIndexKeys ==
  LoadedRules
    => /\ \A a, b \in 1..Len(requestReplacements) :
            (a < b /\ ~IsArrayIndex(requestReplacements[a].key))
              => FirstPattern(requestReplacements[a].key)
                   < FirstPattern(requestReplacements[b].key)
       /\ \A a, b \in 1..Len(responseReplacements) :
            (a < b /\ ~IsArrayIndex(responseReplacements[a].key))
              => FirstReplacement(responseReplacements[a].key)
                   < FirstReplacement(responseReplacements[b].key)

\* every content the rule file takes, and what a load compiles from each
Configurations ==
  {MissingFile, UnparsableFile, NoRulesArrayFile}
    \cup {RulesFile(r) : r \in SeqsUpTo(RuleObjs, MaxRules)}
Compilations == {Loaded(file) : file \in Configurations}

\* C13: in every state in which a reader can run, the two dictionaries are
\* together the complete compilation of one configuration (both empty when
\* that configuration is absent or malformed), and right after a load that
\* configuration is the file as it is.
C13_AtomicRebuild ==
  /\ [request |-> requestReplacements, response |-> responseReplacements]
       \in Compilations
  /\ fresh => /\ requestReplacements = Loaded(ruleFile).request
              /\ responseReplacements = Loaded(ruleFile).response

\* the file has been rewritten since the load of [x -> y, y -> z], whose
\* compilation the readers still see whole
C13_Witness ==
  /\ ~fresh
  /\ rules = <<RXZ>>
  /\ requestReplacements = BuildRequest(<<RXY, RYZ>>, <<>>)
  /\ responseReplacements = BuildResponse(<<RXY, RYZ>>, <<>>)
  /\ responseReplacements # <<>>

(***************************************************************************)
(* Claims about the transforms                                             *)
(***************************************************************************)
\* C14: all chunks of one streamed response are rewritten with the same
\* reverse dictionary, whatever loads run while the response is in flight.
C14_SingleSnapshot ==
  \A i, j \in 1..Len(stream.used) : stream.used[i] = stream.used[j]

\* the most recent call was of `fn` and has returned
Called(fn) == applied.fn = fn

\* the call returned the very value it was given: not a copy, not a re-encoding
ReturnedArgument == ~applied.threw /\ applied.out = applied.arg

\* C15: with an empty forward dictionary obfuscateRequestBody returns its
\* argument itself; with an empty reverse dictionary deobfuscateResponseBody
\* and DeobfuscateTransform.transform return their argument itself.
C15_IdentityWhenDisabled ==
  /\ (Called("obfuscateRequestBody") /\ requestReplacements = <<>>) => ReturnedArgument
  /\ (Called("deobfuscateResponseBody") /\ responseReplacements = <<>>) => ReturnedArgument
  /\ (Called("transform") /\ responseReplacements = <<>>) => ReturnedArgument

\* under a file that leaves only the forward dictionary empty, the nested body
\* came back from obfuscateRequestBody as the caller's own object
C15_Witness ==
  /\ Called("obfuscateRequestBody")
  /\ requestReplacements = <<>>
  /\ responseReplacements # <<>>
  /\ applied.arg = BodyNested
  /\ applied.out.alloc = "caller"

\* with no dictionary, a Buffer of bytes that are no UTF-8 came back from
\* transform as it was
C15_WitnessTransform ==
  /\ Called("transform")
  /\ responseReplacements = <<>>
  /\ applied.arg = JsBuffer("caller", <<"z", "0xC3">>)
  /\ applied.out = applied.arg

\* a occurs in b
IsSubstring(a, b) == \E k \in 0..(Len(b) - Len(a)) : SubSeq(b, k + 1, k + Len(a)) = a

\* the texts of the strings of a value tree
RECURSIVE Leaves(_)
Leaves(v) ==
  IF v.t = "string" THEN {v.text}
  ELSE IF v.t = "array" THEN UNION {Leaves(v.items[i]) : i \in 1..Len(v.items)}
  ELSE IF v.t = "object" THEN UNION {Leaves(v.items[i].value) : i \in 1..Len(v.items)}
  ELSE {}

\* a value tree whoever allocated its arrays and objects
RECURSIVE Plain(_)
Plain(v) ==
  IF v.t = "array"
  THEN JsArray("any", [i \in 1..Len(v.items) |-> Plain(v.items[i])])
  ELSE IF v.t = "object"
  THEN JsObject("any", [i \in 1..Len(v.items) |->
                          Prop(v.items[i].key, Plain(v.items[i].value))])
  ELSE v

\* a value tree without the properties named __proto__
NotProtoKey(entry) == entry.key # <<"__proto__">>
RECURSIVE WithoutProtoKeys(_)
WithoutProtoKeys(v) ==
  IF v.t = "array"
  THEN [v EXCEPT !.items = [i \in 1..Len(v.items) |-> WithoutProtoKeys(v.items[i])]]
  ELSE IF v.t = "object"
  THEN LET kept == SelectSeq(v.items, NotProtoKey)
       IN [v EXCEPT !.items = [i \in 1..Len(kept) |->
                                 Prop(kept[i].key, WithoutProtoKeys(kept[i].value))]]
  ELSE v

\* deobfuscateResponseBody has returned what it made of obfuscateRequestBody(input)
RoundTripMade == Called("deobfuscateResponseBody") /\ applied.chained

\* no pattern is a substring of another pattern or of a replacement
NoPatternInside ==
  \A i, j \in 1..Len(rules) :
    /\ i # j => ~IsSubstring(Pattern(i), Pattern(j))
    /\ ~IsSubstring(Pattern(i), Replacement(j))

Inverse ==
  /\ \A j \in 1..Len(requestReplacements) :
       Maps(responseReplacements, requestReplacements[j].value, requestReplacements[j].key)
  /\ \A j \in 1..Len(responseReplacements) :
       Maps(requestReplacements, responseReplacements[j].value, responseReplacements[j].key)

\* the characters that are replacements
Markers == {requestReplacements[j].value[1] : j \in 1..Len(requestReplacements)}
Characters(text) == {text[i] : i \in 1..Len(text)}

\* every replacement is one character, which occurs in no pattern
SingleMarkers ==
  \A j \in 1..Len(requestReplacements) :
    /\ Len(requestReplacements[j].value) = 1
    /\ Characters(requestReplacements[j].key) \cap Markers = {}

C16_WitnessProtoKey ==
  /\ RoundTripMade
  /\ rules = <<RXY>>
  /\ input = BodyProtoKey
  /\ Plain(applied.out) = Plain(BodyKX)

\* C17: under the reversible rules [x -> y, y -> z] obfuscateRequestBody makes
\* {k: 'z'} of {k: 'x'} and deobfuscateResponseBody makes {k: 'x'} of {k: 'z'}.
C17_ChainedRoundTrip ==
  rules = <<RXY, RYZ>>
    => /\ (Called("obfuscateRequestBody") /\ applied.arg = BodyKX)
            => Plain(applied.out) = Plain(BodyKZ)
       /\ (Called("deobfuscateResponseBody") /\ Plain(applied.arg) = Plain(BodyKZ))
            => Plain(applied.out) = Plain(BodyKX)

\* the forward half of C17
C17_ChainedForward ==
  (rules = <<RXY, RYZ>> /\ Called("obfuscateRequestBody") /\ applied.arg = BodyKX)
    => Plain(applied.out) = Plain(BodyKZ)

\* text with `value` put before every character and at the end: every
\* occurrence of the empty string replaced
RECURSIVE Around(_, _)
Around(text, value) ==
  IF text = <<>> THEN value
  ELSE value \o <<Head(text)>> \o Around(Tail(text), value)

\* text with `value` put between every two adjacent characters
RECURSIVE Between(_, _)
Between(text, value) ==
  IF Len(text) <= 1 THEN text
  ELSE <<Head(text)>> \o value \o Between(Tail(text), value)

\* text with every occurrence of a non-empty key, found scanning from left to
\* right and not overlapping an earlier one, replaced by value
RECURSIVE ReplaceFound(_, _, _)
ReplaceFound(text, key, value) ==
  IF text = <<>> THEN <<>>
  ELSE IF Len(text) >= Len(key) /\ SubSeq(text, 1, Len(key)) = key
  THEN value \o ReplaceFound(SubSeq(text, Len(key) + 1, Len(text)), key, value)
  ELSE <<Head(text)>> \o ReplaceFound(Tail(text), key, value)

\* the fold over the entries in iteration order, the empty key taken as
\* occurring at every position (emptyAround) or between characters only
RECURSIVE Fold(_, _, _)
Fold(text, entries, emptyAround) ==
  IF entries = <<>> THEN text
  ELSE LET key == Head(entries).key
           value == Head(entries).value
       IN Fold(IF key # <<>> THEN ReplaceFound(text, key, value)
               ELSE IF emptyAround THEN Around(text, value)
               ELSE Between(text, value),
               Tail(entries), emptyAround)

\* a string transform has returned from a non-empty string
StringCalled(fn) == Called(fn) /\ applied.arg.t = "string" /\ applied.arg.text # <<>>

\* C18 as stated: for a non-empty string, obfuscateString and deobfuscateString
\* return the fold over the entries of their dictionary in iteration order,
\* each step replacing every non-overlapping occurrence of the key, scanned
\* from left to right, by the value; [x -> y, y -> z] turns 'x' into 'z'.
C18_Substitution ==
  /\ StringCalled("obfuscateString")
       => applied.out = JsString(Fold(applied.arg.text, requestReplacements, TRUE))
  /\ StringCalled("deobfuscateString")
       => applied.out = JsString(Fold(applied.arg.text, responseReplacements, TRUE))
  /\ (rules = <<RXY, RYZ>> /\ Called("obfuscateString") /\ applied.arg = JsString(<<"x">>))
       => applied.out = JsString(<<"z">>)

\* C18 as amended: the same for the entries whose key is not empty; an entry
\* with the empty key puts its value between every two adjacent characters of
\* the intermediate result, and nothing before the first or after the last.
C18_SubstitutionOfNonEmptyKeys ==
  /\ StringCalled("obfuscateString")
       => applied.out = JsString(Fold(applied.arg.text, requestReplacements, FALSE))
  /\ StringCalled("deobfuscateString")
       => applied.out = JsString(Fold(applied.arg.text, responseReplacements, FALSE))
  /\ (rules = <<RXY, RYZ>> /\ Called("obfuscateString") /\ applied.arg = JsString(<<"x">>))
       => applied.out = JsString(<<"z">>)

\* 'xxx' became 'zx' under [xx -> z]: the second x belongs to the first occurrence
C18_Witness ==
  /\ Called("obfuscateString")
  /\ rules = <<RXXZ>>
  /\ applied.arg = JsString(<<"x", "x", "x">>)
  /\ applied.out = JsString(<<"z", "x">>)

\* 'x' became 'z' under [x -> y, y -> z]
C18_WitnessChain ==
  /\ Called("obfuscateString")
  /\ rules = <<RXY, RYZ>>
  /\ applied.arg = JsString(<<"x">>)
  /\ applied.out = JsString(<<"z">>)

\* 'xy' became 'xyy' under ['' -> y]
C18_WitnessEmptyKey ==
  /\ Called("obfuscateString")
  /\ rules = <<REmpty>>
  /\ applied.arg = JsString(<<"x", "y">>)
  /\ applied.out = JsString(<<"x", "y", "y">>)

\* `made` has the shape of `given`: strings replaced by their substitution,
\* arrays of the same length in the same order, objects with the same keys in
\* the same order, everything else as it was
RECURSIVE Rewritten(_, _, _)
Rewritten(given, made, forward) ==
  IF given.t = "string" THEN made = transformFn(given, forward)
  ELSE IF given.t = "array"
  THEN /\ made.t = "array"
       /\ Len(made.items) = Len(given.items)
       /\ \A i \in 1..Len(given.items) : Rewritten(given.items[i], made.items[i], forward)
  ELSE IF given.t = "object"
  THEN /\ made.t = "object"
       /\ Len(made.items) = Len(given.items)
       /\ \A i \in 1..Len(given.items) :
            /\ made.items[i].key = given.items[i].key
            /\ Rewritten(given.items[i].value, made.items[i].value, forward)
  ELSE made = given

\* {"a":["y",{"b":"y"}],"c":null,"d":5}
BodyNestedY ==
  JsObject("callee",
           <<Prop(<<"a">>, JsArray("callee",
                                   <<JsString(<<"y">>),
                                     JsObject("callee", <<Prop(<<"b">>, JsString(<<"y">>))>>)>>)),
             Prop(<<"c">>, JsNull),
             Prop(<<"d">>, JsNumber(<<"5">>))>>)

\* C19: under a non-empty dictionary obfuscateRequestBody and
\* deobfuscateResponseBody return a value of the shape of their argument, every
\* string replaced by its substitution, keys and their order, array lengths and
\* orders, numbers, booleans and null kept; under [x -> y] the nested body
\* becomes {a:['y',{b:'y'}], c:null, d:5}.
C19_TreeTraversal ==
  /\ (Called("obfuscateRequestBody") /\ requestReplacements # <<>>)
       => Rewritten(applied.arg, applied.out, TRUE)
  /\ (Called("deobfuscateResponseBody") /\ responseReplacements # <<>>)
       => Rewritten(applied.arg, applied.out, FALSE)
  /\ (Called("obfuscateRequestBody") /\ rules = <<RXY>> /\ applied.arg = BodyNested)
       => Plain(applied.out) = Plain(BodyNestedY)

\* C19 with the properties named __proto__ left out of the argument
C19_TreeTraversalButProtoKeys ==
  /\ (Called("obfuscateRequestBody") /\ requestReplacements # <<>>)
       => Rewritten(WithoutProtoKeys(applied.arg), applied.out, TRUE)
  /\ (Called("deobfuscateResponseBody") /\ responseReplacements # <<>>)
       => Rewritten(WithoutProtoKeys(applied.arg), applied.out, FALSE)
  /\ (Called("obfuscateRequestBody") /\ rules = <<RXY>> /\ applied.arg = BodyNested)
       => Plain(applied.out) = Plain(BodyNestedY)

\* C20: no call of a transform raises, and the string transforms return what
\* is no string, or the empty string, as it is.
C20_NeverFail ==
  /\ ~applied.threw
  /\ ((Called("obfuscateString") \/ Called("deobfuscateString")) /\ Untouched(applied.arg))
       => applied.out = applied.arg

\* C20 but for transform given null or undefined
C20_NeverFailButTransformOfNothing ==
  /\ applied.threw
       => Called("transform") /\ applied.arg.t \in {"null", "undefined"}
  /\ ((Called("obfuscateString") \/ Called("deobfuscateString")) /\ Untouched(applied.arg))
       => applied.out = applied.arg

(***************************************************************************)
(* Claims about the streamed response                                      *)
(***************************************************************************)
\* what transform makes of a chunk under a reverse dictionary
Rewrites(chunk, dict, made) ==
  IF dict = <<>> THEN made = chunk
  ELSE made = JsBuffer("callee", Utf8Encode(IF toString(chunk) = <<>> THEN <<>>
                                            ELSE Fold(toString(chunk), dict, FALSE)))

\* the outputs so far are those of the inputs so far, one each, in their order
OneForOne ==
  /\ Len(stream.emitted) = Len(stream.consumed)
  /\ Len(stream.used) = Len(stream.consumed)
  /\ \A i \in 1..Len(stream.consumed) :
       Rewrites(stream.consumed[i], stream.used[i], stream.emitted[i])

\* the stream as it stands: one output per consumed input, and no failure
StreamInOrder ==
  /\ OneForOne
  /\ stream.phase \in {"suspended", "awaiting", "done"}
  /\ stream.phase = "done" => stream.source = <<>>

\* a step that consumes an input consumes the next one of the source, at the
\* consumer's request, and emits its output in the same step
ConsumesInTurn ==
  Len(stream'.consumed) # Len(stream.consumed)
    => /\ stream.phase = "awaiting"
       /\ stream'.consumed = Append(stream.consumed, Head(stream.source))
       /\ Len(stream'.emitted) = Len(stream.emitted) + 1
       /\ SubSeq(stream'.emitted, 1, Len(stream.emitted)) = stream.emitted

\* a step that finishes the stream is taken when the source has ended
FinishesAtEnd ==
  (stream'.phase = "done" /\ stream.phase # "done")
    => stream.source = <<>> /\ stream.phase = "awaiting"

\* C21: transformStream has emitted one output for every input it has
\* consumed, in the same order; it consumes an input only when the output of
\* every earlier input has been emitted and the consumer has asked for the
\* next; it finishes only when the source has ended, and never fails.
C21_StreamOrdering ==
  /\ []StreamInOrder
  /\ [][ConsumesInTurn /\ FinishesAtEnd]_vars

\* the second of two chunks has been emitted, and the stream has finished
C21_Witness ==
  /\ stream.phase = "done"
  /\ Len(stream.emitted) = 2
  /\ stream.consumed = <<JsBuffer("caller", <<"y">>), JsBuffer("caller", <<"z">>)>>
  /\ stream.emitted[1] # stream.consumed[1]

\* the reverse dictionary of [k -> secret]
SecretBack == BuildResponse(<<RSecret>>, <<>>)

\* C22: every output is what the reverse dictionary read for its chunk makes
\* of that chunk alone, so equal chunks under equal dictionaries give equal
\* outputs wherever they stand in the stream; the buffer field stays as the
\* constructor left it; and 'sec' followed by 'ret' under the key 'secret' are
\* emitted with their content as it was.
C22_ChunkLocal ==
  /\ stream.phase # "none" => stream.buffer = <<>>
  /\ \A i \in 1..Len(stream.emitted) :
       /\ Rewrites(stream.consumed[i], stream.used[i], stream.emitted[i])
       /\ \A j \in 1..Len(stream.emitted) :
            (stream.consumed[i] = stream.consumed[j] /\ stream.used[i] = stream.used[j])
              => stream.emitted[i] = stream.emitted[j]
  /\ \A i \in 1..(Len(stream.emitted) - 1) :
       (/\ stream.consumed[i].text = <<"sec">>
        /\ stream.consumed[i + 1].text = <<"ret">>
        /\ stream.used[i] = SecretBack
        /\ stream.used[i + 1] = SecretBack)
         => /\ stream.emitted[i].text = <<"sec">>
            /\ stream.emitted[i + 1].text = <<"ret">>

\* 'sec' and 'ret' went through under the key 'secret', both re-encoded, neither rewritten
C22_Witness ==
  /\ Len(stream.emitted) = 2
  /\ stream.used = <<SecretBack, SecretBack>>
  /\ SecretBack # <<>>
  /\ stream.consumed = <<JsBuffer("caller", <<"sec">>), JsBuffer("caller", <<"ret">>)>>
  /\ stream.emitted = <<JsBuffer("callee", <<"sec">>), JsBuffer("callee", <<"ret">>)>>
  /\ stream.buffer = <<>>

(***************************************************************************)
(* Claims about the README of req-replace                                  *)
(***************************************************************************)
\* the key K and the value V of the one pair of the first rule of the file
OnlyKey == ruleFile.rules[1].rule.pairs[1].key
OnlyValue == ruleFile.rules[1].rule.pairs[1].value

\* the loaded file holds one active rule, which maps a non-empty key K to a
\* non-empty value V
MapsOneKey ==
  /\ fresh
  /\ Len(ruleFile.rules) = 1
  /\ IsActive(ruleFile.rules[1]) /\ HasRule(ruleFile.rules[1])
  /\ OnlyKey \notin {<<>>, <<"__proto__">>}
  /\ OnlyValue # <<>>

\* C23: once a file mapping K to V has been loaded, a response body that is a
\* string containing V is returned with every V replaced by K.
C23_ReadmeResponse ==
  (/\ MapsOneKey
   /\ StringCalled("deobfuscateResponseBody")
   /\ IsSubstring(OnlyValue, applied.arg.text))
    => applied.out = JsString(ReplaceFound(applied.arg.text, OnlyValue, OnlyKey))

(***************************************************************************)
(* Claims about the User-Agent version updater                             *)
(***************************************************************************)
\* C24: whenever a retry timer is pending (a request has failed with fewer
\* than MAX_RETRIES attempts made), a request is issued later; and the updater
\* gives up a cycle only when it has made MAX_RETRIES attempts in it.
C24_RetryFetches ==
  /\ (timers # <<>>) ~> (fetches # <<>>)
  /\ [](updater.event.kind = "gaveUp" => updater.attempts = MAX_RETRIES)

\* this step is an hourly check
CheckFires == updater'.checks = updater.checks + 1

\* C25: isUpdating, once true, is false again later, and an hourly check that
\* fires while no request is in flight issues one.
C25_LockReleased ==
  /\ isUpdating ~> ~isUpdating
  /\ [][(CheckFires /\ fetches = <<>>) => fetches' # <<>>]_vars

\* this step is the end of a request
Settles == Len(fetches') < Len(fetches)

\* C26: at most one request is in flight; a step that changes the initialized
\* currentVersion is the end of a request that resolved, and sets it to the
\* version the request resolved with; the end of a request that was rejected
\* leaves currentVersion as it is.
C26_SingleFetch ==
  /\ [](Len(fetches) <= 1)
  /\ [][/\ (currentVersion # JsNull /\ currentVersion' # currentVersion)
             => /\ Settles
                /\ updater'.event.kind = "resolved"
                /\ currentVersion' = updater'.event.value
        /\ (Settles /\ updater'.event.kind # "resolved")
             => currentVersion' = currentVersion]_vars

\* an hourly check fired while the request of the check before it was in
\* flight and issued none, after the startup request had changed the version
C26_Witness ==
  /\ updater.event = Event("check", FALSE, 0, JsUndefined)
  /\ Len(fetches) = 1
  /\ updater.checks = 2
  /\ currentVersion = JsString(<<"0.20.0">>)

(***************************************************************************)
(* Claims about the 401 error tracker                                      *)
(***************************************************************************)
\* the operation that led to this state
Did(kind) == tracker.event.kind = kind

\* the stored records of a key hash
Stored(records, keyHash) == {i \in 1..Len(records) : records[i].keyHash = keyHash}

\* C27: the store holds at most one first-fail record per key hash; the record
\* just recorded is a first fail exactly when the store held no record of its
\* key hash; and the key hash of every stored record is in failedKeysSet.
C27_FirstFailOnce ==
  /\ \A i, j \in 1..Len(error401Records) :
       (/\ error401Records[i].isFirstFail /\ error401Records[j].isFirstFail
        /\ error401Records[i].keyHash = error401Records[j].keyHash) => i = j
  /\ Did("record")
       => LET record == error401Records[Len(error401Records)]
          IN record.isFirstFail <=> Stored(tracker.event.records, record.keyHash) = {}
  /\ \A i \in 1..Len(error401Records) : error401Records[i].keyHash \in failedKeysSet

\* a key whose records were all cleaned up has failed again, for the first time
C27_Witness ==
  /\ Did("record")
  /\ tracker.recorded = 2
  /\ tracker.event.records = <<>>
  /\ error401Records = <<Record(RETENTION_MS + 1, <<"sha256", "k1">>, TRUE)>>

\* a key has failed twice, the second time not for the first time
C27_WitnessRepeated ==
  /\ Did("record")
  /\ Len(error401Records) = 2
  /\ error401Records[1].isFirstFail /\ ~error401Records[2].isFirstFail
  /\ error401Records[1].keyHash = error401Records[2].keyHash

\* the records of `before` from time `cutoff` on, in their order
Since(before, cutoff) == SelectSeq(before, LAMBDA record : record.timestamp >= cutoff)

C28_WitnessNothingRemoved ==
  /\ Did("cleanup")
  /\ tracker.event.records # <<>>
  /\ error401Records = tracker.event.records

\* a day count, kept between 1 and RETENTION_DAYS
Clamp(days) == IF days < 1 THEN 1 ELSE IF days > RETENTION_DAYS THEN RETENTION_DAYS ELSE days

\* the count a range asks for, its default being 1
Asked == IF tracker.event.range = JsUndefined THEN JsNumber(<<"1">>) ELSE tracker.event.range

\* C29: get401Records leaves the store as it is; for a range that holds a
\* number it returns the stored records whose timestamp is >= now minus the
\* window, the window of a day count being clamp(days, 1, RETENTION_DAYS)
\* days and that of an hour count its hours; and no record it returns, for a
\* day count or an hour count, is older than RETENTION_MS.
C29_QueryWindow ==
  Did("query")
    => /\ error401Records = tracker.event.records
       /\ failedKeysSet = tracker.event.keys
       /\ ~parseInt(Asked).nan
            => tracker.event.out =
                 Since(error401Records,
                       now - (IF IsHours(Asked) THEN parseInt(Asked).n
                              ELSE Clamp(parseInt(Asked).n) * DAY))
       /\ \A i \in 1..Len(tracker.event.out) :
            tracker.event.out[i].timestamp >= now - RETENTION_MS

\* what holds of C29: the store is left as it is, the records returned are
\* those of the window, and for a day count none is older than RETENTION_MS
C29_QueryWindowOfDays ==
  Did("query")
    => /\ error401Records = tracker.event.records
       /\ failedKeysSet = tracker.event.keys
       /\ ~parseInt(Asked).nan
            => tracker.event.out =
                 Since(error401Records,
                       now - (IF IsHours(Asked) THEN parseInt(Asked).n
                              ELSE Clamp(parseInt(Asked).n) * DAY))
       /\ ~IsHours(Asked)
            => \A i \in 1..Len(tracker.event.out) :
                 tracker.event.out[i].timestamp >= now - RETENTION_MS

====
